---- MODULE Spec2Model ----
(***************************************************************************)
(* Model of MySQLStorage (src/server/storage.ts): the application store of *)
(* the municipal rates clearance portal.  The datastore is modelled by the *)
(* two tables the store creates.  Under Spec every handler of the class is *)
(* one action (calls do not overlap); what a call returns is an operator   *)
(* of the state it is made in.                                             *)
(***************************************************************************)
EXTENDS Integers, Sequences, FiniteSets, TLC

\* ------------------------------------------------------------------ bounds
MaxTime == 3          \* clock ticks the model lets pass
MaxIds == 1           \* distinct values randomUUID() returns
MaxRefs == 1          \* distinct suffixes the reference generator returns
MaxDocs == 3          \* longest stored document list
MaxInstances == 3     \* times the store is constructed on one datastore
MaxRows == 2          \* rows of table applications under SpecRows
MaxCalls == 3         \* calls that may overlap under SpecCalls

\* --------------------------------------------------------------- constants
NoDate == 0           \* a null DATETIME / Date (storage.ts:128); Dates are >= 1
RefLow == 100000      \* smallest six-digit suffix (storage.ts:118)
TicksPerSecond == 2   \* a DATETIME column keeps whole seconds (storage.ts:75)

NULL == "<null>"
UNDEFINED == "<undefined>"
CONN == "<connection>"

\* randomUUID() returns a fresh member of Ids; callers may pass any RequestId
Ids == 1..MaxIds
AdminIds == 1..(MaxIds + 1)
RequestIds == 1..(MaxIds + 1)
RefSuffixes == RefLow..(RefLow + MaxRefs - 1)
Statuses == {"submitted", "under_review", "approved", "rejected"}

\* JavaScript truthiness of a string-or-null value, and of a Date-or-null
Falsy(x) == x \in {NULL, UNDEFINED, ""}
Or(x, y) == IF Falsy(x) THEN y ELSE x
DateOr(d, e) == IF d = NoDate THEN e ELSE d

\* obj.key of an object that may lack the key
Get(obj, key) == IF key \in DOMAIN obj THEN obj[key] ELSE UNDEFINED

\* ------------------------------------------------------------------- JSON
\* JSON text of a string array is the token sequence  [ "a" , "b" ]
LB == [t |-> "[", v |-> ""]
RB == [t |-> "]", v |-> ""]
COMMA == [t |-> ",", v |-> ""]
JStr(s) == [t |-> "str", v |-> s]

RECURSIVE JoinTokens(_)
JoinTokens(arr) ==
  IF arr = <<>> THEN <<>>
  ELSE IF Len(arr) = 1 THEN <<JStr(arr[1])>>
  ELSE <<JStr(arr[1]), COMMA>> \o JoinTokens(Tail(arr))

JSONstringify(arr) == <<LB>> \o JoinTokens(arr) \o <<RB>>

JSONparse(text) == [i \in 1..((Len(text) - 1) \div 2) |-> text[2 * i].v]

\* a DATETIME column rounds the bound Date to whole seconds; NULL stays NULL
DATETIME(d) ==
  IF d = NoDate THEN NoDate
  ELSE ((2 * d + TicksPerSecond) \div (2 * TicksPerSecond)) * TicksPerSecond

\* referenceNumber = `RCC-2025-${n}`
ReferenceNumber(n) == <<"RCC-2025-", n>>

\* ------------------------------------------------------------------ inputs
Jane ==
  [fullName |-> "Jane Doe", idNumber |-> "63-100", phoneNumber |-> "0771",
   email |-> "jane@example.org", propertyAddress |-> "1 Main St",
   standNumber |-> "S1", propertyType |-> "residential", reason |-> "sale"]

\* an empty email, document lists that differ from each other, and the
\* fields the store itself owns
Forged ==
  [fullName |-> "Ann Dube", idNumber |-> "63-300", phoneNumber |-> "0773",
   email |-> "", propertyAddress |-> "3 Lake Ave", standNumber |-> "S3",
   propertyType |-> "residential", reason |-> "sale",
   documents |-> <<"deed">>, uploadedDocuments |-> <<"scan">>,
   status |-> "approved", reviewDate |-> 1, completedDate |-> 1,
   adminNotes |-> "self-approved", reviewedBy |-> "nobody"]

InsertApplications == {Jane, Forged}

\* documents argument of attachDocuments
DocLists == {<<"doc1">>, <<"doc2">>}

\* reviewedBy / adminNotes / reason arguments of updateApplicationStatus
UpdateArgs ==
  { [reviewedBy |-> UNDEFINED, adminNotes |-> UNDEFINED, reason |-> UNDEFINED],
    [reviewedBy |-> "clerk", adminNotes |-> UNDEFINED, reason |-> UNDEFINED],
    [reviewedBy |-> "", adminNotes |-> "checked", reason |-> "transfer"] }

InsertAdmins ==
  { [username |-> "admin", password |-> "pw", fullName |-> "Second Admin"],
    [username |-> "clerk", password |-> "pw", fullName |-> "Clerk"] }

\* ------------------------------------------------------------------- state
VARIABLES
  connection,     \* this.connection: NULL or CONN
  initPc,         \* position of initializeDatabase()
  tables,         \* tables that exist in the datastore
  applications,   \* rows of table applications, by primary key id
  admins,         \* rows of table admins, by primary key id
  clock,          \* what new Date() returns
  instances,      \* MySQLStorage objects constructed against the datastore
  calls           \* overlapping calls: what each has read, what it returned

vars == <<connection, initPc, tables, applications, admins, clock,
          instances, calls>>

\* what a call returns: a value, undefined, or an exception
NoValue == [none |-> TRUE]
Returned(value) == [kind |-> "value", error |-> "", value |-> value]
NotFound == [kind |-> "undefined", error |-> "", value |-> NoValue]
Threw(error) == [kind |-> "throw", error |-> error, value |-> NoValue]

NotEstablished == "Database connection not established"
NoSuchTable == "ER_NO_SUCH_TABLE"
DupEntry == "ER_DUP_ENTRY"

Init ==
  /\ connection = NULL
  /\ initPc = "createConnection"
  /\ tables = {}
  /\ applications = <<>>
  /\ admins = <<>>
  /\ clock = TicksPerSecond
  /\ instances = 1
  /\ calls = <<>>

\* time passes
Tick ==
  /\ clock < MaxTime
  /\ clock' = clock + 1
  /\ UNCHANGED <<connection, initPc, tables, applications, admins, instances, calls>>

\* --------------------------------------------------------- initialization
\* mysql.createConnection resolves: this.connection is assigned and
\* createTables issues its first statement
CreateConnection ==
  /\ initPc = "createConnection"
  /\ connection' = CONN
  /\ initPc' = "createTables_applications"
  /\ UNCHANGED <<tables, applications, admins, clock, instances, calls>>

CreateTablesApplications ==
  /\ initPc = "createTables_applications"
  /\ tables' = tables \cup {"applications"}
  /\ initPc' = "createTables_admins"
  /\ UNCHANGED <<connection, applications, admins, clock, instances, calls>>

CreateTablesAdmins ==
  /\ initPc = "createTables_admins"
  /\ tables' = tables \cup {"admins"}
  /\ initPc' = "createDefaultAdmin_select"
  /\ UNCHANGED <<connection, applications, admins, clock, instances, calls>>

\* mutant of HasUsername: the SELECT finds nothing and UNIQUE is not enforced
HasUsername_Never(username) == FALSE

HasUsername(username) == \E k \in DOMAIN admins : admins[k].username = username

\* SELECT * FROM admins WHERE username = 'admin'; rows.length === 0 ?
CreateDefaultAdminSelect ==
  /\ initPc = "createDefaultAdmin_select"
  /\ initPc' = IF HasUsername("admin") THEN "done" ELSE "createDefaultAdmin_insert"
  /\ UNCHANGED <<connection, tables, applications, admins, clock, instances, calls>>

AdminRow(id, username, password, fullName, createdAt) ==
  [id |-> id, username |-> username, password |-> password,
   full_name |-> fullName, created_at |-> DATETIME(createdAt)]

\* the INSERT succeeds unless the username was taken since the SELECT
CreateDefaultAdminInsert ==
  /\ initPc = "createDefaultAdmin_insert"
  /\ ~HasUsername("admin")
  /\ \E defaultAdminId \in AdminIds \ DOMAIN admins :
       admins' = admins @@ (defaultAdminId :>
         AdminRow(defaultAdminId, "admin", "admin123",
                  "System Administrator", clock))
  /\ initPc' = "done"
  /\ UNCHANGED <<connection, tables, applications, clock, instances, calls>>

\* any awaited step of initializeDatabase rejects: the catch block logs and
\* rethrows; nothing awaits the promise and this.connection keeps its value
InitializeFails ==
  /\ initPc \notin {"done", "failed"}
  /\ initPc' = "failed"
  /\ UNCHANGED <<connection, tables, applications, admins, clock, instances, calls>>

\* the process ends and the next one constructs the store on the same
\* datastore: `export const storage = new MySQLStorage()`
Restart ==
  /\ initPc \in {"done", "failed"}
  /\ instances < MaxInstances
  /\ instances' = instances + 1
  /\ connection' = NULL
  /\ initPc' = "createConnection"
  /\ UNCHANGED <<tables, applications, admins, clock, calls>>

\* ------------------------------------------------------------ applications
\* mutant of NewApplication: the input is spread last and wins
NewApplication_SpreadLast(insertApplication, id, referenceNumber, submittedDate) ==
  insertApplication
  @@ [id |-> id, referenceNumber |-> referenceNumber,
      email |-> NULL, status |-> "submitted", submittedDate |-> submittedDate,
      reviewDate |-> NoDate, completedDate |-> NoDate, adminNotes |-> NULL,
      reviewedBy |-> NULL, documents |-> <<>>, uploadedDocuments |-> <<>>]

\* the object literal of createApplication: later keys win over earlier ones
NewApplication(insertApplication, id, referenceNumber, submittedDate) ==
  [email |-> Or(Get(insertApplication, "email"), NULL),
   status |-> "submitted",
   submittedDate |-> submittedDate,
   reviewDate |-> NoDate,
   completedDate |-> NoDate,
   adminNotes |-> NULL,
   reviewedBy |-> NULL,
   documents |-> IF "documents" \in DOMAIN insertApplication
                 THEN insertApplication.documents ELSE <<>>,
   uploadedDocuments |-> IF "uploadedDocuments" \in DOMAIN insertApplication
                         THEN insertApplication.uploadedDocuments ELSE <<>>]
  @@ insertApplication
  @@ [id |-> id, referenceNumber |-> referenceNumber]

\* the values bound to the INSERT statement, as the columns keep them
InsertedRow(application) ==
  [id |-> application.id,
   reference_number |-> application.referenceNumber,
   full_name |-> application.fullName,
   id_number |-> application.idNumber,
   phone_number |-> application.phoneNumber,
   email |-> application.email,
   property_address |-> application.propertyAddress,
   stand_number |-> application.standNumber,
   property_type |-> application.propertyType,
   reason |-> application.reason,
   documents |-> JSONstringify(application.documents),
   uploaded_documents |-> JSONstringify(application.uploadedDocuments),
   status |-> application.status,
   submitted_date |-> DATETIME(application.submittedDate),
   review_date |-> DATETIME(application.reviewDate),
   completed_date |-> DATETIME(application.completedDate),
   admin_notes |-> application.adminNotes,
   reviewed_by |-> application.reviewedBy]

mapRowToApplication(row) ==
  [id |-> row.id,
   referenceNumber |-> row.reference_number,
   fullName |-> row.full_name,
   idNumber |-> row.id_number,
   phoneNumber |-> row.phone_number,
   email |-> row.email,
   propertyAddress |-> row.property_address,
   standNumber |-> row.stand_number,
   propertyType |-> row.property_type,
   reason |-> row.reason,
   documents |-> IF row.documents = <<>> THEN <<>> ELSE JSONparse(row.documents),
   uploadedDocuments |-> IF row.uploaded_documents = <<>> THEN <<>>
                         ELSE JSONparse(row.uploaded_documents),
   status |-> row.status,
   submittedDate |-> row.submitted_date,
   reviewDate |-> row.review_date,
   completedDate |-> row.completed_date,
   adminNotes |-> row.admin_notes,
   reviewedBy |-> row.reviewed_by]

\* mutant of HasReference: the UNIQUE index on reference_number is missing
HasReference_Never(referenceNumber) == FALSE

HasReference(referenceNumber) ==
  \E k \in DOMAIN applications : applications[k].reference_number = referenceNumber

\* what every handler does first: `if (!this.connection) throw`; then its
\* statement fails when the table is missing
Guard(table) ==
  IF connection = NULL THEN Threw(NotEstablished)
  ELSE IF table \notin tables THEN Threw(NoSuchTable)
  ELSE NotFound

Refused(table) == Guard(table).kind = "throw"

\* createApplication(insertApplication), randomUUID() giving id and the
\* reference generator giving n
\* the INSERT is refused by PRIMARY KEY (id) or UNIQUE (reference_number)
CreateApplicationResult(insertApplication, id, n) ==
  LET application ==
        NewApplication(insertApplication, id, ReferenceNumber(n), clock)
  IN IF Refused("applications") THEN Guard("applications")
     ELSE IF \/ application.id \in DOMAIN applications
             \/ HasReference(application.referenceNumber)
          THEN Threw(DupEntry)
     ELSE Returned(application)

CreateApplicationCall(insertApplication, id, n) ==
  LET result == CreateApplicationResult(insertApplication, id, n)
  IN /\ applications' =
          IF result.kind = "value"
          THEN applications @@ (result.value.id :> InsertedRow(result.value))
          ELSE applications
     /\ UNCHANGED <<connection, initPc, tables, admins, clock, instances, calls>>

CreateApplication ==
  \E insertApplication \in InsertApplications,
     id \in Ids \ DOMAIN applications, n \in RefSuffixes :
    CreateApplicationCall(insertApplication, id, n)

GetApplicationResult(id) ==
  IF Refused("applications") THEN Guard("applications")
  ELSE IF id \notin DOMAIN applications THEN NotFound
  ELSE Returned(mapRowToApplication(applications[id]))

GetApplication ==
  \E id \in RequestIds :
    /\ GetApplicationResult(id).kind \in {"value", "undefined", "throw"}
    /\ UNCHANGED vars

GetApplicationByReferenceResult(referenceNumber) ==
  IF Refused("applications") THEN Guard("applications")
  ELSE IF ~HasReference(referenceNumber) THEN NotFound
  ELSE Returned(mapRowToApplication(
         applications[CHOOSE k \in DOMAIN applications :
                        applications[k].reference_number = referenceNumber]))

GetApplicationByReference ==
  \E n \in RefSuffixes :
    /\ GetApplicationByReferenceResult(ReferenceNumber(n)).kind
         \in {"value", "undefined", "throw"}
    /\ UNCHANGED vars

\* ------------------------------------------------- updateApplicationStatus
\* mutants of ReviewDateOf: the stored value is overwritten; the default is lost
ReviewDateOf_Overwrite(application, now) == now
ReviewDateOf_NoDefault(application, now) == application.reviewDate

\* const reviewDate = application.reviewDate || now
ReviewDateOf(application, now) == DateOr(application.reviewDate, now)

\* mutants of CompletedDateOf: rejected is forgotten; a non-terminal status
\* clears the date; every status sets it
CompletedDateOf_ApprovedOnly(application, status, now) ==
  IF status = "approved" THEN now ELSE application.completedDate
CompletedDateOf_Cleared(application, status, now) ==
  IF status \in {"approved", "rejected"} THEN now ELSE NoDate
CompletedDateOf_Always(application, status, now) == now

CompletedDateOf(application, status, now) ==
  IF status \in {"approved", "rejected"} THEN now ELSE application.completedDate

\* mutant of StatusUpdatedRow: the statement writes the whole record back
StatusUpdatedRow_WriteBack(row, application, status, a, now) ==
  [row EXCEPT
     !.status = status,
     !.reviewed_by = Or(a.reviewedBy, application.reviewedBy),
     !.admin_notes = Or(a.adminNotes, application.adminNotes),
     !.reason = Or(a.reason, application.reason),
     !.review_date = DATETIME(ReviewDateOf(application, now)),
     !.completed_date = DATETIME(CompletedDateOf(application, status, now)),
     !.documents = JSONstringify(application.documents),
     !.uploaded_documents = JSONstringify(application.uploadedDocuments)]

\* mutants of StatusUpdatedRow: the statement stamps submitted_date; an
\* approved or rejected row keeps its status
StatusUpdatedRow_Resubmits(row, application, status, a, now) ==
  [row EXCEPT
     !.status = status,
     !.reviewed_by = Or(a.reviewedBy, application.reviewedBy),
     !.admin_notes = Or(a.adminNotes, application.adminNotes),
     !.reason = Or(a.reason, application.reason),
     !.review_date = DATETIME(ReviewDateOf(application, now)),
     !.completed_date = DATETIME(CompletedDateOf(application, status, now)),
     !.submitted_date = DATETIME(now)]
StatusUpdatedRow_Final(row, application, status, a, now) ==
  [row EXCEPT
     !.status = IF row.status \in {"approved", "rejected"} THEN @ ELSE status,
     !.reviewed_by = Or(a.reviewedBy, application.reviewedBy),
     !.admin_notes = Or(a.adminNotes, application.adminNotes),
     !.reason = Or(a.reason, application.reason),
     !.review_date = DATETIME(ReviewDateOf(application, now)),
     !.completed_date = DATETIME(CompletedDateOf(application, status, now))]

\* the UPDATE statement of updateApplicationStatus applied to the stored row
StatusUpdatedRow(row, application, status, a, now) ==
  [row EXCEPT
     !.status = status,
     !.reviewed_by = Or(a.reviewedBy, application.reviewedBy),
     !.admin_notes = Or(a.adminNotes, application.adminNotes),
     !.reason = Or(a.reason, application.reason),
     !.review_date = DATETIME(ReviewDateOf(application, now)),
     !.completed_date = DATETIME(CompletedDateOf(application, status, now))]

\* the object updateApplicationStatus returns
StatusUpdatedApplication(application, status, a, now) ==
  [application EXCEPT
     !.status = status,
     !.reviewedBy = Or(a.reviewedBy, application.reviewedBy),
     !.adminNotes = Or(a.adminNotes, application.adminNotes),
     !.reason = Or(a.reason, application.reason),
     !.reviewDate = ReviewDateOf(application, now),
     !.completedDate = CompletedDateOf(application, status, now)]

UpdateApplicationStatusResult(id, status, a) ==
  LET found == GetApplicationResult(id)
  IN IF found.kind # "value" THEN found
     ELSE Returned(StatusUpdatedApplication(found.value, status, a, clock))

UpdateApplicationStatusCall(id, status, a) ==
  LET found == GetApplicationResult(id)
  IN /\ applications' =
          IF found.kind = "value"
          THEN [applications EXCEPT ![id] =
                  StatusUpdatedRow(@, found.value, status, a, clock)]
          ELSE applications
     /\ UNCHANGED <<connection, initPc, tables, admins, clock, instances, calls>>

UpdateApplicationStatus ==
  \E id \in RequestIds, status \in Statuses, a \in UpdateArgs :
    UpdateApplicationStatusCall(id, status, a)

\* --------------------------------------------------------- attachDocuments
\* mutant of UpdatedDocuments: the new references are put first
UpdatedDocuments_Prepend(application, documents) ==
  documents \o application.documents

UpdatedDocuments(application, documents) == application.documents \o documents

\* mutant of AttachedRow: the statement appends to the list the row holds
AttachedRow_Append(row, application, documents, now) ==
  [row EXCEPT
     !.documents = JSONstringify(JSONparse(row.documents) \o documents),
     !.uploaded_documents = JSONstringify(JSONparse(row.documents) \o documents),
     !.status = "under_review",
     !.review_date = DATETIME(now)]

\* the UPDATE statement of attachDocuments applied to the stored row
AttachedRow(row, application, documents, now) ==
  [row EXCEPT
     !.documents = JSONstringify(UpdatedDocuments(application, documents)),
     !.uploaded_documents = JSONstringify(UpdatedDocuments(application, documents)),
     !.status = "under_review",
     !.review_date = DATETIME(now)]

\* the object attachDocuments returns
AttachedApplication(application, documents, now) ==
  [application EXCEPT
     !.documents = UpdatedDocuments(application, documents),
     !.uploadedDocuments = UpdatedDocuments(application, documents),
     !.status = "under_review",
     !.reviewDate = now]

AttachDocumentsResult(id, documents) ==
  LET found == GetApplicationResult(id)
  IN IF found.kind # "value" THEN found
     ELSE Returned(AttachedApplication(found.value, documents, clock))

AttachDocumentsCall(id, documents) ==
  LET found == GetApplicationResult(id)
  IN /\ applications' =
          IF found.kind = "value"
          THEN [applications EXCEPT ![id] =
                  AttachedRow(@, found.value, documents, clock)]
          ELSE applications
     /\ UNCHANGED <<connection, initPc, tables, admins, clock, instances, calls>>

\* the stored list stays within MaxDocs
AttachDocuments ==
  \E id \in RequestIds, documents \in DocLists :
    /\ id \in DOMAIN applications =>
         Len(JSONparse(applications[id].documents)) + Len(documents) <= MaxDocs
    /\ AttachDocumentsCall(id, documents)

\* ------------------------------------------------------------------ admins
mapRowToAdmin(row) ==
  [id |-> row.id, username |-> row.username, password |-> row.password,
   fullName |-> row.full_name, createdAt |-> row.created_at]

GetAdminResult(id) ==
  IF Refused("admins") THEN Guard("admins")
  ELSE IF id \notin DOMAIN admins THEN NotFound
  ELSE Returned(mapRowToAdmin(admins[id]))

GetAdmin ==
  \E id \in RequestIds :
    /\ GetAdminResult(id).kind \in {"value", "undefined", "throw"}
    /\ UNCHANGED vars

GetAdminByUsernameResult(username) ==
  IF Refused("admins") THEN Guard("admins")
  ELSE IF ~HasUsername(username) THEN NotFound
  ELSE Returned(mapRowToAdmin(
         admins[CHOOSE k \in DOMAIN admins : admins[k].username = username]))

GetAdminByUsername ==
  \E username \in {"admin", "clerk"} :
    /\ GetAdminByUsernameResult(username).kind \in {"value", "undefined", "throw"}
    /\ UNCHANGED vars

CreateAdminResult(insertAdmin, id) ==
  IF Refused("admins") THEN Guard("admins")
  ELSE IF HasUsername(insertAdmin.username) THEN Threw(DupEntry)
  ELSE Returned([id |-> id, createdAt |-> clock] @@ insertAdmin)

CreateAdminCall(insertAdmin, id) ==
  LET result == CreateAdminResult(insertAdmin, id)
  IN /\ admins' =
          IF result.kind = "value"
          THEN admins @@ (id :>
                 AdminRow(result.value.id, result.value.username,
                          result.value.password, result.value.fullName,
                          result.value.createdAt))
          ELSE admins
     /\ UNCHANGED <<connection, initPc, tables, applications, clock,
                    instances, calls>>

CreateAdmin ==
  \E insertAdmin \in InsertAdmins, id \in AdminIds \ DOMAIN admins :
    CreateAdminCall(insertAdmin, id)

\* ----------------------------------------------------------- specification
Initialize ==
  \/ CreateConnection
  \/ CreateTablesApplications
  \/ CreateTablesAdmins
  \/ CreateDefaultAdminSelect
  \/ CreateDefaultAdminInsert
  \/ InitializeFails

ApplicationRequest ==
  \/ CreateApplication
  \/ GetApplication
  \/ GetApplicationByReference
  \/ UpdateApplicationStatus
  \/ AttachDocuments

AdminRequest ==
  \/ GetAdmin
  \/ GetAdminByUsername
  \/ CreateAdmin

\* the two tables are independent: no handler touches both
Next == Tick \/ Initialize \/ ApplicationRequest

Spec == Init /\ [][Next]_vars

\* the admins table over the lifetimes of several processes
NextAdmins == Tick \/ Initialize \/ Restart \/ AdminRequest

SpecAdmins == Init /\ [][NextAdmins]_vars

\* several applications side by side, each with a short life: any id and
\* any suffix may come up again, one reviewer, one upload
RowIds == 1..MaxRows
RowRequestIds == 1..(MaxRows + 1)
RowRefSuffixes == RefLow..(RefLow + MaxRows - 1)
RowStatuses == {"under_review", "approved"}
RowUpdateArgs ==
  {[reviewedBy |-> "clerk", adminNotes |-> UNDEFINED, reason |-> UNDEFINED]}
RowDocLists == {<<"doc1">>}

CreateApplicationRows ==
  \E insertApplication \in InsertApplications, id \in RowIds,
     n \in RowRefSuffixes :
    CreateApplicationCall(insertApplication, id, n)

GetApplicationByReferenceRows ==
  \E n \in RowRefSuffixes :
    /\ GetApplicationByReferenceResult(ReferenceNumber(n)).kind
         \in {"value", "undefined", "throw"}
    /\ UNCHANGED vars

UpdateApplicationStatusRows ==
  \E id \in RowRequestIds, status \in RowStatuses, a \in RowUpdateArgs :
    UpdateApplicationStatusCall(id, status, a)

AttachDocumentsRows ==
  \E id \in RowRequestIds, documents \in RowDocLists :
    /\ id \in DOMAIN applications =>
         Len(JSONparse(applications[id].documents)) + Len(documents) < MaxDocs
    /\ AttachDocumentsCall(id, documents)

NextRows ==
  \/ Tick
  \/ Initialize
  \/ CreateApplicationRows
  \/ GetApplicationByReferenceRows
  \/ UpdateApplicationStatusRows
  \/ AttachDocumentsRows

SpecRows == Init /\ [][NextRows]_vars

\* --------------------------------------------------------- overlapping calls
\* updateApplicationStatus and attachDocuments await getApplication, then
\* await their UPDATE: other calls run between the two.  calls[c] keeps what
\* call c was given, what it read and when, and what it returned.
CallSlots == 1..MaxCalls
CallStatuses == {"under_review", "approved"}
NoArgs == [reviewedBy |-> UNDEFINED, adminNotes |-> UNDEFINED, reason |-> UNDEFINED]
CallUpdateArgs == {NoArgs}

\* the next call to start
NextCall == Cardinality(DOMAIN calls) + 1

\* call c after `const application = await this.getApplication(id)`
AfterRead(op, id, status, a, documents) ==
  LET found == GetApplicationResult(id)
  IN [op |-> op, id |-> id, status |-> status, a |-> a, documents |-> documents,
      pc |-> IF found.kind = "value" THEN "read" ELSE "returned",
      application |-> found.value,
      readAt |-> clock,
      result |-> IF found.kind = "value" THEN NotFound ELSE found]

Pending(c, op) ==
  /\ c \in DOMAIN calls
  /\ calls[c].op = op
  /\ calls[c].pc = "read"

ReturnedValue(c, op) ==
  /\ c \in DOMAIN calls
  /\ calls[c].op = op
  /\ calls[c].pc = "returned"
  /\ calls[c].result.kind = "value"

UpdateApplicationStatusRead ==
  \E id \in Ids, status \in CallStatuses, a \in CallUpdateArgs :
    /\ NextCall \in CallSlots
    /\ calls' = calls @@
         (NextCall :> AfterRead("updateApplicationStatus", id, status, a, <<>>))
    /\ UNCHANGED <<connection, initPc, tables, applications, admins, clock,
                   instances>>

\* `const now = new Date()` is taken between the read and the UPDATE
UpdateApplicationStatusWrite ==
  \E c \in CallSlots, now \in 1..MaxTime :
    /\ Pending(c, "updateApplicationStatus")
    /\ calls[c].readAt <= now /\ now <= clock
    /\ applications' = [applications EXCEPT ![calls[c].id] =
         StatusUpdatedRow(@, calls[c].application, calls[c].status,
                          calls[c].a, now)]
    /\ calls' = [calls EXCEPT ![c].pc = "returned", ![c].result =
         Returned(StatusUpdatedApplication(calls[c].application,
                    calls[c].status, calls[c].a, now))]
    /\ UNCHANGED <<connection, initPc, tables, admins, clock, instances>>

AttachDocumentsRead ==
  \E id \in Ids, documents \in DocLists :
    /\ NextCall \in CallSlots
    /\ calls' = calls @@
         (NextCall :> AfterRead("attachDocuments", id, "under_review", NoArgs,
                               documents))
    /\ UNCHANGED <<connection, initPc, tables, applications, admins, clock,
                   instances>>

AttachDocumentsWrite ==
  \E c \in CallSlots, now \in 1..MaxTime :
    /\ Pending(c, "attachDocuments")
    /\ calls[c].readAt <= now /\ now <= clock
    /\ applications' = [applications EXCEPT ![calls[c].id] =
         AttachedRow(@, calls[c].application, calls[c].documents, now)]
    /\ calls' = [calls EXCEPT ![c].pc = "returned", ![c].result =
         Returned(AttachedApplication(calls[c].application,
                    calls[c].documents, now))]
    /\ UNCHANGED <<connection, initPc, tables, admins, clock, instances>>

NextCalls ==
  \/ Tick
  \/ Initialize
  \/ CreateApplication
  \/ UpdateApplicationStatusRead
  \/ UpdateApplicationStatusWrite
  \/ AttachDocumentsRead
  \/ AttachDocumentsWrite

SpecCalls == Init /\ [][NextCalls]_vars

\* ------------------------------------------------------------------ claims
\* the application stored under id, as getApplication maps it
Stored(id) == mapRowToApplication(applications[id])

\* the same after the step
StoredNext(id) == mapRowToApplication(applications'[id])

\* the step changes the row stored under id
Changed(id) == applications'[id] # applications[id]

Terminal == {"approved", "rejected"}

\* C1 as stated: every stored application has completedDate non-null if and
\* only if its status is approved or rejected.
C1_CompletedIffTerminal ==
  \A id \in DOMAIN applications :
    (Stored(id).completedDate # NoDate) <=> (Stored(id).status \in Terminal)

\* C1 as amended: every stored application whose status is approved or
\* rejected has a non-null completedDate (the converse fails: a later status
\* update or attachDocuments leaves completedDate set).
C1_TerminalHasCompletedDate ==
  \A id \in DOMAIN applications :
    Stored(id).status \in Terminal => Stored(id).completedDate # NoDate

C1_Witness ==
  \E id \in DOMAIN applications :
    /\ Stored(id).status = "rejected"
    /\ Stored(id).completedDate # NoDate

\* C2 as stated: once an application's reviewDate is non-null, no later
\* operation changes it.
C2_ReviewDateNeverChanges ==
  [][\A id \in DOMAIN applications :
       Stored(id).reviewDate # NoDate =>
         StoredNext(id).reviewDate = Stored(id).reviewDate]_vars

\* C2 as amended: once reviewDate is non-null, no later updateApplicationStatus
\* call changes it, whereas every attachDocuments call overwrites it with the
\* time of that call.
C2_ReviewDateKeptByStatusUpdates ==
  [][\A id \in DOMAIN applications :
       (Changed(id) /\ Stored(id).reviewDate # NoDate) =>
         /\ \A status \in Statuses, a \in UpdateArgs :
              UpdateApplicationStatusCall(id, status, a) =>
                StoredNext(id).reviewDate = Stored(id).reviewDate
         /\ \A documents \in DocLists :
              AttachDocumentsCall(id, documents) =>
                StoredNext(id).reviewDate = DATETIME(clock)]_vars

\* approved in a later second than the one reviewDate was set in, reviewDate
\* kept
C2_Witness ==
  \E id \in DOMAIN applications :
    /\ Stored(id).reviewDate # NoDate
    /\ Stored(id).completedDate > Stored(id).reviewDate
    /\ Stored(id).status = "approved"

\* C3 as stated: once an application's completedDate is non-null, no later
\* updateApplicationStatus or attachDocuments call changes it.
C3_CompletedDateSetOnce ==
  [][\A id \in DOMAIN applications :
       Stored(id).completedDate # NoDate =>
         StoredNext(id).completedDate = Stored(id).completedDate]_vars

\* C3 as amended: once completedDate is non-null, attachDocuments and an
\* updateApplicationStatus to submitted or under_review leave it as it is,
\* and an updateApplicationStatus to approved or rejected sets it again, to
\* the time of that call.
C3_CompletedDateResetOnlyByTerminalUpdate ==
  [][\A id \in DOMAIN applications :
       (Changed(id) /\ Stored(id).completedDate # NoDate) =>
         /\ \A documents \in DocLists :
              AttachDocumentsCall(id, documents) =>
                StoredNext(id).completedDate = Stored(id).completedDate
         /\ \A status \in Statuses, a \in UpdateArgs :
              UpdateApplicationStatusCall(id, status, a) =>
                StoredNext(id).completedDate =
                  IF status \in Terminal THEN DATETIME(clock)
                  ELSE Stored(id).completedDate]_vars

\* approved, documents attached in a later second: completedDate kept
C3_Witness ==
  \E id \in DOMAIN applications :
    /\ Stored(id).completedDate # NoDate
    /\ Stored(id).reviewDate > Stored(id).completedDate
    /\ Stored(id).status = "under_review"
    /\ Stored(id).documents # <<>>

\* C4: no request is served (passes the connection guard and changes the
\* datastore) unless initializeDatabase has completed; after a failed step
\* every request is refused.
C4_NoServiceUnlessInitialized ==
  [][(ApplicationRequest /\ vars' # vars) => initPc = "done"]_vars

\* C5: in every reachable state getApplication(id) for an id without a stored
\* application returns undefined and does not throw.
C5_UnknownIdReturnsUndefined ==
  \A id \in RequestIds :
    id \notin DOMAIN applications => GetApplicationResult(id).kind = "undefined"

\* C6: every attachDocuments(id, docs) on an existing application appends docs
\* to the stored documents and to the stored uploadedDocuments.
C6_BothListsGrowOnly ==
  [][\A id \in DOMAIN applications, documents \in DocLists :
       (Changed(id) /\ AttachDocumentsCall(id, documents)) =>
         /\ StoredNext(id).documents = Stored(id).documents \o documents
         /\ StoredNext(id).uploadedDocuments =
              Stored(id).uploadedDocuments \o documents]_vars

\* C7: the stored documents list is the list given at creation followed by
\* the attached references in call order: creation stores the given list,
\* every attachDocuments call appends its references and leaves the status
\* under_review whatever it was, and no other step changes the list.
C7_DocumentsInCallOrder ==
  [][\A id \in Ids :
       /\ (id \notin DOMAIN applications /\ id \in DOMAIN applications') =>
            \A insertApplication \in InsertApplications, n \in RefSuffixes :
              CreateApplicationCall(insertApplication, id, n) =>
                StoredNext(id).documents =
                  IF "documents" \in DOMAIN insertApplication
                  THEN insertApplication.documents ELSE <<>>
       /\ (id \in DOMAIN applications /\ Changed(id)) =>
            /\ \A documents \in DocLists :
                 AttachDocumentsCall(id, documents) =>
                   /\ StoredNext(id).documents = Stored(id).documents \o documents
                   /\ StoredNext(id).status = "under_review"
            /\ \/ StoredNext(id).documents = Stored(id).documents
               \/ \E documents \in DocLists :
                    AttachDocumentsCall(id, documents)]_vars

\* created with a list, approved, then doc1 and doc2 attached in that order
C7_Witness ==
  \E id \in DOMAIN applications :
    /\ Stored(id).documents = <<"deed", "doc1", "doc2">>
    /\ Stored(id).status = "under_review"
    /\ Stored(id).completedDate # NoDate

\* C8: every updateApplicationStatus call on an existing application leaves
\* reviewDate non-null, and as it was if it was non-null before the call.
C8_StatusUpdateSetsReviewDateOnce ==
  [][\A id \in DOMAIN applications, status \in Statuses, a \in UpdateArgs :
       (Changed(id) /\ UpdateApplicationStatusCall(id, status, a)) =>
         LET returned == UpdateApplicationStatusResult(id, status, a).value
         IN /\ StoredNext(id).reviewDate # NoDate
            /\ returned.reviewDate # NoDate
            /\ Stored(id).reviewDate # NoDate =>
                 /\ StoredNext(id).reviewDate = Stored(id).reviewDate
                 /\ returned.reviewDate = Stored(id).reviewDate]_vars

\* two status updates and no attachDocuments: the second, in a later second,
\* kept the reviewDate of the first
C8_Witness ==
  \E id \in DOMAIN applications :
    /\ Stored(id).reviewedBy = "clerk"
    /\ Stored(id).adminNotes = "checked"
    /\ Stored(id).documents = <<>>
    /\ Stored(id).reviewDate # NoDate
    /\ Stored(id).completedDate > Stored(id).reviewDate

\* C9: updateApplicationStatus to approved or rejected leaves completedDate
\* non-null; to submitted or under_review it leaves completedDate as it was.
C9_CompletedDateFrame ==
  [][\A id \in DOMAIN applications, status \in Statuses, a \in UpdateArgs :
       (Changed(id) /\ UpdateApplicationStatusCall(id, status, a)) =>
         LET returned == UpdateApplicationStatusResult(id, status, a).value
         IN IF status \in Terminal
            THEN /\ StoredNext(id).completedDate # NoDate
                 /\ returned.completedDate # NoDate
            ELSE /\ StoredNext(id).completedDate = Stored(id).completedDate
                 /\ returned.completedDate = Stored(id).completedDate]_vars

\* approved, then set back to submitted by a status update (nothing attached)
C9_Witness ==
  \E id \in DOMAIN applications :
    /\ Stored(id).status = "submitted"
    /\ Stored(id).completedDate # NoDate
    /\ Stored(id).documents = <<>>

\* C10: the application createApplication returns, and the row it stores, have
\* status submitted and null reviewDate, completedDate, adminNotes and
\* reviewedBy, whatever the input carries.
C10_CreatedAsSubmitted ==
  [][\A id \in Ids :
       (id \notin DOMAIN applications /\ id \in DOMAIN applications') =>
         \A insertApplication \in InsertApplications, n \in RefSuffixes :
           LET result == CreateApplicationResult(insertApplication, id, n)
           IN (result.kind = "value"
               /\ CreateApplicationCall(insertApplication, id, n)) =>
                /\ result.value.status = "submitted"
                /\ result.value.reviewDate = NoDate
                /\ result.value.completedDate = NoDate
                /\ result.value.adminNotes = NULL
                /\ result.value.reviewedBy = NULL
                /\ StoredNext(id).status = "submitted"
                /\ StoredNext(id).reviewDate = NoDate
                /\ StoredNext(id).completedDate = NoDate
                /\ StoredNext(id).adminNotes = NULL
                /\ StoredNext(id).reviewedBy = NULL]_vars

\* the input that carries status, dates, notes and reviewer has been stored
C10_Witness ==
  \E id \in DOMAIN applications :
    /\ Stored(id).fullName = Forged.fullName
    /\ Stored(id).status = "submitted"
    /\ Stored(id).reviewDate = NoDate
    /\ Stored(id).reviewedBy = NULL

\* C11: default-admin seeding is idempotent. After any number of consecutive
\* initializations of the same datastore there is exactly one admin row with
\* username "admin", and no step of a later initialization (nor any other
\* step) modifies or removes an admin row that is already stored.
DefaultAdmins == {k \in DOMAIN admins : admins[k].username = "admin"}

C11_SeedingIdempotent ==
  /\ [](initPc = "done" => Cardinality(DefaultAdmins) = 1)
  /\ [][\A k \in DOMAIN admins :
          k \in DOMAIN admins' /\ admins'[k] = admins[k]]_vars

\* the third construction has finished initializing; the row is the one the
\* first initialization inserted
C11_Witness ==
  /\ instances = MaxInstances
  /\ initPc = "done"
  /\ \E k \in DOMAIN admins :
       /\ admins[k] = AdminRow(k, "admin", "admin123", "System Administrator",
                               TicksPerSecond)
       /\ admins[k].created_at < DATETIME(clock)

\* C12: no two stored applications share an id or a reference number, after
\* any sequence of createApplication calls; a createApplication whose
\* generated reference number is already stored ends in the datastore's
\* duplicate-entry error, and a step that adds a row adds one whose reference
\* number was not stored before and keeps every stored row.
C12_UniqueIdAndReference ==
  /\ [](\A j, k \in DOMAIN applications :
          (\/ applications[j].id = applications[k].id
           \/ applications[j].reference_number = applications[k].reference_number)
            => j = k)
  /\ [](\A insertApplication \in InsertApplications, id \in RowIds,
           n \in RowRefSuffixes :
          (~Refused("applications") /\ HasReference(ReferenceNumber(n))) =>
            CreateApplicationResult(insertApplication, id, n) = Threw(DupEntry))
  /\ [][/\ DOMAIN applications \subseteq DOMAIN applications'
        /\ \A k \in DOMAIN applications' \ DOMAIN applications :
             ~HasReference(applications'[k].reference_number)]_vars

\* every suffix is taken: each further createApplication collides
C12_Witness ==
  /\ Cardinality(DOMAIN applications) = MaxRows
  /\ \A n \in RowRefSuffixes : HasReference(ReferenceNumber(n))
  /\ ~Refused("applications")

\* C13: a lost update is reachable.  Whenever two attachDocuments calls on
\* the same id have both returned a record after reading the same stored
\* list, and they are the only attachDocuments calls, the stored documents
\* are the list they read followed by the references of one call alone:
\* the references of the other call are lost.
AttachCalls == {c \in DOMAIN calls : calls[c].op = "attachDocuments"}

C13_LaterWriteOverwrites ==
  \A c, d \in AttachCalls :
    (/\ c # d
     /\ AttachCalls = {c, d}
     /\ ReturnedValue(c, "attachDocuments")
     /\ ReturnedValue(d, "attachDocuments")
     /\ calls[c].id = calls[d].id
     /\ calls[c].application.documents = calls[d].application.documents) =>
      Stored(calls[c].id).documents \in
        {calls[c].application.documents \o calls[c].documents,
         calls[d].application.documents \o calls[d].documents}

\* both calls returned a record, and no reference of call c is stored
C13_Witness ==
  \E c, d \in AttachCalls :
    /\ c # d
    /\ ReturnedValue(c, "attachDocuments")
    /\ ReturnedValue(d, "attachDocuments")
    /\ calls[c].id = calls[d].id
    /\ calls[c].documents # calls[d].documents
    /\ \A i \in 1..Len(Stored(calls[c].id).documents) :
         Stored(calls[c].id).documents[i] # calls[c].documents[1]
    /\ \E i \in 1..Len(Stored(calls[c].id).documents) :
         Stored(calls[c].id).documents[i] = calls[d].documents[1]

\* C19: a status update never loses an attached document.  When one
\* attachDocuments call and any number of updateApplicationStatus calls on
\* the same id overlap in any order and all have returned, the stored
\* documents are the list the attachDocuments call read followed by its
\* references; and only the write of an attachDocuments call changes the
\* stored list, so the list it read is the list stored before.
C19_StatusUpdateKeepsDocuments ==
  /\ [](\A c \in AttachCalls :
          (/\ AttachCalls = {c}
           /\ ReturnedValue(c, "attachDocuments")
           /\ \A u \in DOMAIN calls : calls[u].pc = "returned") =>
            Stored(calls[c].id).documents =
              calls[c].application.documents \o calls[c].documents)
  /\ [][\A id \in DOMAIN applications :
          StoredNext(id).documents # Stored(id).documents =>
            \E c \in CallSlots :
              Pending(c, "attachDocuments") /\ calls'[c].pc = "returned"]_vars

\* two status updates overlapped the attachDocuments call: it read the row
\* before either wrote, and an approving update that had read the list
\* before the attachment wrote last
C19_Witness ==
  \E c \in AttachCalls, u \in DOMAIN calls :
    /\ AttachCalls = {c}
    /\ Cardinality(DOMAIN calls) = MaxCalls
    /\ \A k \in DOMAIN calls : calls[k].pc = "returned" /\ calls[k].result.kind = "value"
    /\ calls[c].application.status = "submitted"
    /\ calls[u].op = "updateApplicationStatus"
    /\ calls[u].status = "approved"
    /\ calls[u].application.documents = calls[c].application.documents
    /\ Stored(calls[c].id).status = "approved"
    /\ Stored(calls[c].id).documents =
         calls[c].application.documents \o calls[c].documents

\* C14: create-then-lookup round trip.  For every record A a successful
\* createApplication returns, getApplicationByReference(A.referenceNumber)
\* called right after returns a record equal to A in every field.
C14_CreateThenLookup ==
  [][\A insertApplication \in InsertApplications, id \in RowIds,
        n \in RowRefSuffixes :
       (/\ applications' # applications
        /\ CreateApplicationCall(insertApplication, id, n)) =>
         \A A \in {CreateApplicationResult(insertApplication, id, n).value} :
           GetApplicationByReferenceResult(A.referenceNumber)' = Returned(A)]_vars

\* C15: updateApplicationStatus and attachDocuments called on a store that
\* holds a connection, with an id that has no stored application, return the
\* not-found sentinel (a call that finds no row issues no UPDATE, so the
\* store is left as it was).
C15_UnknownIdReturnsSentinel ==
  \A id \in RequestIds \ DOMAIN applications, status \in Statuses,
     a \in UpdateArgs, documents \in DocLists :
    connection # NULL =>
      /\ UpdateApplicationStatusResult(id, status, a) = NotFound
      /\ AttachDocumentsResult(id, documents) = NotFound

\* C16: for each of reviewedBy, adminNotes and reason, updateApplicationStatus
\* stores the argument when one is supplied and leaves the stored value as it
\* was when none is supplied.
Supplied(argument, stored) == IF argument = UNDEFINED THEN stored ELSE argument

C16_SuppliedArgumentsStored ==
  [][\A id \in DOMAIN applications, status \in Statuses, a \in UpdateArgs :
       (Changed(id) /\ UpdateApplicationStatusCall(id, status, a)) =>
         /\ StoredNext(id).reviewedBy = Supplied(a.reviewedBy, Stored(id).reviewedBy)
         /\ StoredNext(id).adminNotes = Supplied(a.adminNotes, Stored(id).adminNotes)
         /\ StoredNext(id).reason = Supplied(a.reason, Stored(id).reason)]_vars

\* C17: once an application is stored, no step (no updateApplicationStatus
\* or attachDocuments call on its id or on another id, and no other call)
\* removes it or changes its id, referenceNumber or submittedDate.
C17_IdentityFieldsImmutable ==
  [][\A id \in DOMAIN applications :
       /\ id \in DOMAIN applications'
       /\ StoredNext(id).id = Stored(id).id
       /\ StoredNext(id).referenceNumber = Stored(id).referenceNumber
       /\ StoredNext(id).submittedDate = Stored(id).submittedDate]_vars

\* one application was reviewed and received documents after its creation,
\* next to another one that is still as submitted
C17_Witness ==
  \E j, k \in DOMAIN applications :
    /\ j # k
    /\ Stored(j).submittedDate < Stored(j).reviewDate
    /\ Stored(j).status = "approved"
    /\ Stored(j).documents # <<>>
    /\ Stored(k).status = "submitted"

\* C18: no status is terminal.  For a stored application in any status,
\* updateApplicationStatus with any target status returns a record with that
\* status and leaves the stored status equal to it.
C18_NoTerminalStatus ==
  /\ [](\A id \in DOMAIN applications, status \in Statuses, a \in UpdateArgs :
          /\ UpdateApplicationStatusResult(id, status, a).kind = "value"
          /\ UpdateApplicationStatusResult(id, status, a).value.status = status)
  /\ [][\A id \in DOMAIN applications, status \in Statuses, a \in UpdateArgs :
          (Changed(id) /\ UpdateApplicationStatusCall(id, status, a)) =>
            StoredNext(id).status = status]_vars

\* an application that had been approved or rejected is under review again
C18_Witness ==
  \E id \in DOMAIN applications :
    /\ Stored(id).status = "under_review"
    /\ Stored(id).completedDate # NoDate
    /\ Stored(id).documents = <<>>

\* C20: the record a successful updateApplicationStatus or attachDocuments
\* returns equals, field by field, the record getApplication(id) returns
\* right after, when no other call on the id overlaps.
C20_ReturnedEqualsStored ==
  [][\A id \in DOMAIN applications :
       /\ \A status \in Statuses, a \in UpdateArgs :
            (Changed(id) /\ UpdateApplicationStatusCall(id, status, a)) =>
              \A returned \in {UpdateApplicationStatusResult(id, status, a)} :
                GetApplicationResult(id)' = returned
       /\ \A documents \in DocLists :
            (Changed(id) /\ AttachDocumentsCall(id, documents)) =>
              \A returned \in {AttachDocumentsResult(id, documents)} :
                GetApplicationResult(id)' = returned]_vars

====
